---- MODULE Spec2Model ----
(***************************************************************************)
(* Model of src/main.rs: main builds a ProfilingObjectStoreWrapper (two    *)
(* shared profilers behind Arc<RwLock<..>>), installs it as the object     *)
(* store wrapper of a dataset write / index build, and afterwards builds   *)
(* and exports one report per profiler.                                    *)
(*                                                                         *)
(* ProfilingObjectStore::get/put (crate pprof_object_store) and            *)
(* ReportBuilder::build / Report::pprof (crate pprof) are defined outside  *)
(* main.rs: they follow the design document, sections 4.2, 4.4, 4.5, 5.    *)
(***************************************************************************)
EXTENDS Integers, Sequences, FiniteSets, TLC

\* ---------------------------------------------------------------- bounds
NumCallers == 2
MaxWraps == 2
MaxCalls == 2
MaxSamples == 2

Callers == 1..NumCallers
Backends == {1, 2}
Keys == {"k"}
Values == {"v"}
Ops == {"get", "put"}
ArcIds == 1..4
None == "none"
NotFound == "NotFound"
GetFile == "get_profile.pb"
PutFile == "put_profile.pb"

VARIABLES
    pc,         \* position of main: [stage, kind]
    engine,     \* outcome of the two Profiler::new() calls
    wrapper,    \* the ProfilingObjectStoreWrapper (fields are Arc ids)
    profilers,  \* heap of Arc<RwLock<Result<Profiler>>> allocations
    lock,       \* holder of each RwLock (0 = free)
    stores,     \* object stores: the backends, then every store wrap returned
    wrapArg,    \* history: the `original` argument of each wrap call
    contents,   \* what each backend stores
    direct,     \* history: the backends as if called directly, unwrapped
    call,       \* the call each caller task is executing
    ncalls,     \* number of calls issued by the workload
    completed,  \* history: completed InstrumentedStore calls per kind
    failed,     \* history: InstrumentedStore calls the backend answered with an error
    recorded,   \* history: the samples the stores recorded, per kind
    reports,    \* result of report_builder.build() per kind
    files,      \* the file system
    content     \* the Vec<u8> `content` of main

vars == <<pc, engine, wrapper, profilers, lock, stores, wrapArg, contents,
          direct, call, ncalls, completed, recorded, failed, reports, files,
          content>>

mainVars == <<pc, engine, wrapper, reports, files, content>>
workVars == <<profilers, lock, stores, wrapArg, contents, direct, call,
              ncalls, completed, recorded, failed>>

\* ------------------------------------------------------------- helpers
Pc(stage, kind) == [stage |-> stage, kind |-> kind]

NoWrapper == [get_profile |-> 0, put_profile |-> 0]
NoReport == [built |-> FALSE, ok |-> FALSE, samples |-> <<>>, types |-> <<>>]
NoFile == [exists |-> FALSE, open |-> FALSE, content |-> <<>>]
Unallocated == [state |-> "Unalloc", samples |-> <<>>]
IdleCall == [phase |-> "idle", op |-> "get", key |-> "k", val |-> None,
             store |-> 1, layers |-> <<>>, no |-> 0,
             result |-> None, expected |-> None]
BackendStore == [inner |-> 0, get_profiler |-> 0, put_profiler |-> 0]

Constructed == wrapper # NoWrapper
IsWrapped(s) == stores[s].inner # 0

\* The instrumentation layers a call on store s passes through, outermost
\* first, and the backend below them.
RECURSIVE Layers(_)
Layers(s) == IF stores[s].inner = 0 THEN <<>>
             ELSE <<s>> \o Layers(stores[s].inner)

RECURSIVE Bottom(_)
Bottom(s) == IF stores[s].inner = 0 THEN s ELSE Bottom(stores[s].inner)

\* The backend the caller of wrap asked to have wrapped.
RECURSIVE WrappedBackend(_)
WrappedBackend(s) == IF wrapArg[s] = 0 THEN s ELSE WrappedBackend(wrapArg[s])

RECURSIVE Reverse(_)
Reverse(q) == IF q = <<>> THEN <<>> ELSE Append(Reverse(Tail(q)), Head(q))

ProfilerOf(store, op) == IF op = "get" THEN store.get_profiler
                         ELSE store.put_profiler

\* ------------------------------------------------ ProfilingObjectStoreWrapper
new_shared(a1, a2) == [get_profile |-> a1, put_profile |-> a1]

new(a1, a2) == [get_profile |-> a1, put_profile |-> a2]

wrap_first_backend(self, original) ==
    [inner |-> 1, get_profiler |-> self.get_profile,
     put_profiler |-> self.put_profile]

wrap_swapped(self, original) ==
    [inner |-> original, get_profiler |-> self.put_profile,
     put_profiler |-> self.get_profile]

wrap_copied(self, original) ==
    [inner |-> original, get_profiler |-> self.get_profile + 2,
     put_profiler |-> self.put_profile + 2]

wrap(self, original) ==
    [inner |-> original, get_profiler |-> self.get_profile,
     put_profiler |-> self.put_profile]

\* ------------------------------------------------------------- main: inputs
ReportSource_swapped(w, kind) ==
    IF kind = "get" THEN w.put_profile ELSE w.get_profile

ReportSource(w, kind) == IF kind = "get" THEN w.get_profile ELSE w.put_profile

SampleTypesOf_two(kind) ==
    IF kind = "get"
    THEN <<[name |-> "object_store_get", unit |-> "Count"],
           [name |-> "object_store_get", unit |-> "Count"]>>
    ELSE <<[name |-> "object_store_put", unit |-> "Count"],
           [name |-> "object_store_put", unit |-> "Count"]>>

SampleTypesOf(kind) ==
    IF kind = "get" THEN <<[name |-> "object_store_get", unit |-> "Count"]>>
    ELSE <<[name |-> "object_store_put", unit |-> "Count"]>>

FileOf(kind) == IF kind = "get" THEN GetFile ELSE PutFile

NextKind(kind) == IF kind = "get" THEN Pc("build", "put") ELSE Pc("done", "-")

\* ------------------------------------------------ pprof (from spec 4.4, 4.5)
build(sampler, types) ==
    IF sampler.state # "Ok"
    THEN [built |-> TRUE, ok |-> FALSE, samples |-> <<>>, types |-> types]
    ELSE IF \E i \in 1..Len(sampler.samples) :
                Len(sampler.samples[i].values) # Len(types)
    THEN [built |-> TRUE, ok |-> FALSE, samples |-> <<>>, types |-> types]
    ELSE [built |-> TRUE, ok |-> TRUE, samples |-> sampler.samples,
          types |-> types]

RECURSIVE FlattenValues(_)
FlattenValues(samples) ==
    IF samples = <<>> THEN <<>>
    ELSE <<Len(Head(samples).stack)>> \o Head(samples).stack
         \o Head(samples).values \o FlattenValues(Tail(samples))

write_to_vec(report) ==
    <<Len(report.types), Len(report.samples)>> \o FlattenValues(report.samples)

\* ------------------------------------------------ object store backend
BackendResult(store, op, key, val) ==
    IF op = "put" THEN "ok"
    ELSE IF store[key] = None THEN NotFound ELSE store[key]

BackendAfter(store, op, key, val) ==
    IF op = "put" THEN [store EXCEPT ![key] = val] ELSE store

\* Backend 1 starts empty; backend 2 already holds an object under every key
\* (main writes with WriteMode::Overwrite, so earlier data may exist).
InitialContents ==
    [b \in Backends |-> [k \in Keys |->
        IF b = 1 THEN None ELSE CHOOSE v \in Values : TRUE]]

\* A panic unwinds main: every File still in scope is dropped, which closes it.
DropFiles(fs) == [f \in DOMAIN fs |-> [fs[f] EXCEPT !.open = FALSE]]

Panic(stage) == Pc("panicked", stage)

\* ------------------------------------------------------------------ Init
Init ==
    /\ pc = Pc("new", "-")
    /\ engine = [get |-> "untried", put |-> "untried"]
    /\ wrapper = NoWrapper
    /\ profilers = [a \in ArcIds |-> Unallocated]
    /\ lock = [a \in ArcIds |-> 0]
    /\ stores = [b \in Backends |-> BackendStore]
    /\ wrapArg = [b \in Backends |-> 0]
    /\ contents = InitialContents
    /\ direct = InitialContents
    /\ call = [c \in Callers |-> IdleCall]
    /\ ncalls = 0
    /\ completed = [op \in Ops |-> 0]
    /\ failed = [op \in Ops |-> 0]
    /\ recorded = [op \in Ops |-> {}]
    /\ reports = [op \in Ops |-> NoReport]
    /\ files = [f \in {GetFile, PutFile} |-> NoFile]
    /\ content = <<>>

\* ----------------------------------------------------- main, lines 39-53
\* ProfilingObjectStoreWrapper::new(): each Profiler::new() is unwrapped.
New ==
    /\ pc = Pc("new", "-")
    /\ \E g \in {"ok", "err"}, p \in {"ok", "err"} :
        IF g = "err"
        THEN /\ engine' = [get |-> "err", put |-> "untried"]
             /\ pc' = Panic("new")
             /\ UNCHANGED <<wrapper, profilers>>
        ELSE IF p = "err"
        THEN /\ engine' = [get |-> "ok", put |-> "err"]
             /\ pc' = Panic("new")
             /\ UNCHANGED <<wrapper, profilers>>
        ELSE /\ engine' = [get |-> "ok", put |-> "ok"]
             /\ wrapper' = new(1, 2)
             /\ profilers' = [profilers EXCEPT
                                ![1] = [state |-> "Ok", samples |-> <<>>],
                                ![2] = [state |-> "Ok", samples |-> <<>>]]
             /\ pc' = Pc("workload", "-")
    /\ UNCHANGED <<reports, files, content>>
    /\ UNCHANGED <<lock, stores, wrapArg, contents, direct, call, ncalls,
                   completed, recorded, failed>>

\* ------------------------------------- workload: Dataset::write, create_index
AllIdle == \A c \in Callers : call[c].phase = "idle"

\* The dataset layer hands a store to WrappingObjectStore::wrap.
Wrap(original) ==
    /\ pc = Pc("workload", "-")
    /\ Len(stores) < Cardinality(Backends) + MaxWraps
    /\ stores' = Append(stores, wrap(wrapper, original))
    /\ wrapArg' = Append(wrapArg, original)
    /\ UNCHANGED <<profilers, lock, contents, direct, call, ncalls,
                   completed, recorded, failed>>
    /\ UNCHANGED mainVars

\* A task of the workload calls get or put on a store wrap returned (the
\* dataset layer keeps only the wrapped store): every layer
\* delegates to its `inner` with the arguments unchanged, down to the backend,
\* where the request is now in flight.  Tasks are anonymous: the call runs
\* in the first free task slot.
Invoke(c, s, op, key, val) ==
    /\ pc = Pc("workload", "-")
    /\ IsWrapped(s)
    /\ call[c].phase = "idle"
    /\ \A c2 \in Callers : c2 < c => call[c2].phase # "idle"
    /\ ncalls < MaxCalls
    /\ ncalls' = ncalls + 1
    /\ call' = [call EXCEPT ![c] =
                  [phase |-> "in_backend", op |-> op, key |-> key,
                   val |-> IF op = "put" THEN val ELSE None,
                   store |-> s, layers |-> Reverse(Layers(s)),
                   no |-> ncalls + 1, result |-> None, expected |-> None]]
    /\ UNCHANGED <<profilers, lock, stores, wrapArg, contents, direct,
                   completed, recorded, failed>>
    /\ UNCHANGED mainVars

\* The backend answers.  `direct` receives the same request unwrapped.
BackendEnd(c) ==
    /\ pc = Pc("workload", "-")
    /\ call[c].phase = "in_backend"
    /\ LET cl == call[c]
           b == Bottom(cl.store)
           d == WrappedBackend(cl.store)
           r == BackendResult(contents[b], cl.op, cl.key, cl.val)
       IN /\ contents' = [contents EXCEPT
                            ![b] = BackendAfter(contents[b], cl.op, cl.key, cl.val)]
          /\ direct' = [direct EXCEPT
                            ![d] = BackendAfter(direct[d], cl.op, cl.key, cl.val)]
          /\ failed' = IF r = NotFound
                       THEN [failed EXCEPT ![cl.op] = @ + Len(cl.layers)]
                       ELSE failed
          /\ call' = [call EXCEPT ![c] =
                [cl EXCEPT
                   !.result = r,
                   !.expected = BackendResult(direct[d], cl.op, cl.key, cl.val),
                   !.phase = "unwind"]]
    /\ UNCHANGED <<profilers, lock, stores, wrapArg, ncalls, completed, recorded>>
    /\ UNCHANGED mainVars

\* InstrumentedStore, step 2: take the profiler's lock once the inner call
\* has returned.
LockAcquire_early(c) ==
    /\ pc = Pc("workload", "-")
    /\ call[c].phase = "in_backend"
    /\ call[c].layers # <<>>
    /\ LET p == ProfilerOf(stores[Head(call[c].layers)], call[c].op)
       IN /\ lock[p] = 0
          /\ lock' = [lock EXCEPT ![p] = c]
    /\ UNCHANGED <<profilers, stores, wrapArg, contents, direct, call, ncalls,
                   completed, recorded, failed>>
    /\ UNCHANGED mainVars

LockAcquire(c) ==
    /\ pc = Pc("workload", "-")
    /\ call[c].phase = "unwind"
    /\ LET p == ProfilerOf(stores[Head(call[c].layers)], call[c].op)
       IN /\ lock[p] = 0
          /\ lock' = [lock EXCEPT ![p] = c]
    /\ call' = [call EXCEPT ![c].phase = "locked"]
    /\ UNCHANGED <<profilers, stores, wrapArg, contents, direct, ncalls,
                   completed, recorded, failed>>
    /\ UNCHANGED mainVars

\* InstrumentedStore, steps 2 and 3: record one Sample with values = [1]
\* (skipped silently when the profiler is not usable), release the lock and
\* return the inner result unchanged to the layer above or to the caller.
RecordSample(c) ==
    /\ pc = Pc("workload", "-")
    /\ call[c].phase = "locked"
    /\ LET layer == Head(call[c].layers)
           p == ProfilerOf(stores[layer], call[c].op)
           sample == [stack |-> <<layer, call[c].no>>, values |-> <<1>>]
       IN /\ profilers' = IF profilers[p].state = "Ok"
                          THEN [profilers EXCEPT
                                  ![p].samples = Append(@, sample)]
                          ELSE profilers
          /\ lock' = [lock EXCEPT ![p] = 0]
          /\ recorded' = [recorded EXCEPT
                            ![call[c].op] = @ \cup {sample.stack}]
    /\ completed' = [completed EXCEPT ![call[c].op] = @ + 1]
    /\ call' = [call EXCEPT ![c] =
                  IF Len(call[c].layers) = 1 THEN IdleCall
                  ELSE [call[c] EXCEPT !.layers = Tail(@), !.phase = "unwind"]]
    /\ UNCHANGED <<stores, wrapArg, contents, direct, ncalls, failed>>
    /\ UNCHANGED mainVars

\* Dataset::write(..).await.unwrap() and create_index(..).await.unwrap():
\* the awaited futures are complete and their tasks' locals are gone.
WorkloadDone ==
    /\ pc = Pc("workload", "-")
    /\ AllIdle
    /\ pc' = Pc("build", "get")
    /\ call' = [c \in Callers |-> IdleCall]
    /\ UNCHANGED <<engine, wrapper, reports, files, content>>
    /\ UNCHANGED <<profilers, lock, stores, wrapArg, contents, direct, ncalls,
                   completed, recorded, failed>>

WorkloadFail ==
    /\ pc = Pc("workload", "-")
    /\ AllIdle
    /\ pc' = Panic("workload")
    /\ call' = [c \in Callers |-> IdleCall]
    /\ UNCHANGED <<engine, wrapper, reports, files, content>>
    /\ UNCHANGED <<profilers, lock, stores, wrapArg, contents, direct, ncalls,
                   completed, recorded, failed>>

\* ----------------------------------------------------- main, lines 55-89
\* ReportBuilder::new(&wrapper.<kind>_profile, ..).build().unwrap()
Build(kind) ==
    /\ pc = Pc("build", kind)
    /\ lock[ReportSource(wrapper, kind)] = 0
    /\ LET r == build(profilers[ReportSource(wrapper, kind)],
                      SampleTypesOf(kind))
       IN /\ reports' = [reports EXCEPT ![kind] = r]
          /\ IF r.ok
             THEN /\ pc' = Pc("create", kind)
                  /\ files' = files
             ELSE /\ pc' = Panic("build")
                  /\ files' = DropFiles(files)
    /\ UNCHANGED <<engine, wrapper, content>>
    /\ UNCHANGED workVars

\* File::create("<kind>_profile.pb").unwrap()
CreateFile(kind) ==
    /\ pc = Pc("create", kind)
    /\ \E ok \in BOOLEAN :
        IF ok
        THEN /\ files' = [files EXCEPT ![FileOf(kind)] =
                            [exists |-> TRUE, open |-> TRUE, content |-> <<>>]]
             /\ pc' = Pc("pprof", kind)
        ELSE /\ files' = DropFiles(files)
             /\ pc' = Panic("create")
    /\ UNCHANGED <<engine, wrapper, reports, content>>
    /\ UNCHANGED workVars

\* report.pprof().unwrap()
Pprof(kind) ==
    /\ pc = Pc("pprof", kind)
    /\ \E ok \in BOOLEAN :
        IF ok
        THEN /\ files' = files
             /\ pc' = Pc("encode", kind)
        ELSE /\ files' = DropFiles(files)
             /\ pc' = Panic("pprof")
    /\ UNCHANGED <<engine, wrapper, reports, content>>
    /\ UNCHANGED workVars

\* let mut content = Vec::new(); profile.write_to_vec(&mut content).unwrap()
Encode(kind) ==
    /\ pc = Pc("encode", kind)
    /\ \E ok \in BOOLEAN :
        IF ok
        THEN /\ content' = write_to_vec(reports[kind])
             /\ files' = files
             /\ pc' = Pc("write", kind)
        ELSE /\ content' = <<>>
             /\ files' = DropFiles(files)
             /\ pc' = Panic("encode")
    /\ UNCHANGED <<engine, wrapper, reports>>
    /\ UNCHANGED workVars

\* file.write_all(&content).unwrap(): n bytes reach the file before an error.
\* After the put file, main returns and both Files are dropped.
WriteAll(kind) ==
    /\ pc = Pc("write", kind)
    /\ \E n \in {0, Len(content) \div 2, Len(content)} :
        LET written == [files EXCEPT ![FileOf(kind)].content =
                                        SubSeq(content, 1, n)]
        IN IF n = Len(content)
           THEN /\ pc' = NextKind(kind)
                /\ files' = IF kind = "put" THEN DropFiles(written)
                            ELSE written
           ELSE /\ pc' = Panic("write")
                /\ files' = DropFiles(written)
    /\ UNCHANGED <<engine, wrapper, reports, content>>
    /\ UNCHANGED workVars

Workload ==
    \/ \E s \in 1..Len(stores) : Wrap(s)
    \/ \E c \in Callers, s \in 1..Len(stores), op \in Ops,
          key \in Keys, val \in Values : Invoke(c, s, op, key, val)
    \/ \E c \in Callers : BackendEnd(c)
    \/ \E c \in Callers : LockAcquire(c)
    \/ \E c \in Callers : RecordSample(c)
    \/ WorkloadDone
    \/ WorkloadFail

Export ==
    \/ \E kind \in Ops : Build(kind)
    \/ \E kind \in Ops : CreateFile(kind)
    \/ \E kind \in Ops : Pprof(kind)
    \/ \E kind \in Ops : Encode(kind)
    \/ \E kind \in Ops : WriteAll(kind)

Next == New \/ Workload \/ Export

Spec == Init /\ [][Next]_vars

\* ------------------------------------------- report building on any Sampler
\* ReportBuilder::build is a function of the Sampler it is given: main's
\* report steps started on profilers holding any recorded Samples (a
\* cost-bearing sampler may record value vectors of other lengths).
SampleSeqs ==
    UNION {[1..n -> {[stack |-> <<0, 0>>, values |-> v] :
                        v \in {<<>>, <<1>>, <<1, 1>>}}] : n \in 0..MaxSamples}

InitBuild ==
    /\ pc = Pc("build", "get")
    /\ engine = [get |-> "ok", put |-> "ok"]
    /\ wrapper = new(1, 2)
    /\ \E g \in SampleSeqs, p \in SampleSeqs :
         profilers = [a \in ArcIds |->
                        IF a = 1 THEN [state |-> "Ok", samples |-> g]
                        ELSE IF a = 2 THEN [state |-> "Ok", samples |-> p]
                        ELSE Unallocated]
    /\ lock = [a \in ArcIds |-> 0]
    /\ stores = [b \in Backends |-> BackendStore]
    /\ wrapArg = [b \in Backends |-> 0]
    /\ contents = InitialContents
    /\ direct = InitialContents
    /\ call = [c \in Callers |-> IdleCall]
    /\ ncalls = 0
    /\ completed = [op \in Ops |-> 0]
    /\ failed = [op \in Ops |-> 0]
    /\ recorded = [op \in Ops |-> {}]
    /\ reports = [op \in Ops |-> NoReport]
    /\ files = [f \in {GetFile, PutFile} |-> NoFile]
    /\ content = <<>>

NextBuild == Export

SpecBuild == InitBuild /\ [][NextBuild]_vars

\* ================================================================ claims
SamplerOf(kind) ==
    profilers[IF kind = "get" THEN wrapper.get_profile ELSE wrapper.put_profile]

InCall(c) == call[c].phase \in {"unwind", "locked"}

\* C1 (transparency): every result an InstrumentedStore hands back equals the
\* result the unwrapped backend gives for the same request, errors included,
\* and the backends end up storing what they would store when called
\* directly.
C1_Transparency ==
    /\ \A c \in Callers : InCall(c) => call[c].result = call[c].expected
    /\ contents = direct

\* A get through a wrapped store got NotFound while another got a value.
C1_Witness ==
    \E c1, c2 \in Callers :
        /\ InCall(c1) /\ call[c1].op = "get" /\ call[c1].result = NotFound
        /\ InCall(c2) /\ call[c2].op = "get" /\ call[c2].result \in Values

\* C2 (count correctness under concurrency): when no get was answered with an
\* error, the report main builds from the read-path Sampler after the workload
\* holds exactly one Sample per completed InstrumentedStore get, each with
\* values = <<1>>, under every interleaving of the callers.  (A get on a store
\* that wraps a wrapped store is a get on each of the two InstrumentedStores.)
C2_CountCorrect ==
    (reports["get"].ok /\ failed["get"] = 0) =>
        /\ Len(reports["get"].samples) = completed["get"]
        /\ \A i \in 1..Len(reports["get"].samples) :
              reports["get"].samples[i].values = <<1>>

\* Two successful gets overlapped (the later call recorded first) and the
\* report was built afterwards.
C2_Witness ==
    /\ reports["get"].ok
    /\ failed["get"] = 0
    /\ completed["get"] = 2
    /\ Len(reports["get"].samples) = 2
    /\ reports["get"].samples[1].stack[2] > reports["get"].samples[2].stack[2]

StepOp(c) == IF call[c].phase = "idle" THEN call'[c].op ELSE call[c].op

\* C3 (no cross-contamination): the wrapper's two Samplers are distinct
\* instances, no step of a put call changes the read-path Sampler's samples
\* and no step of a get call changes the write-path Sampler's samples.
C3_NoCrossContamination ==
    /\ [](Constructed => wrapper.get_profile # wrapper.put_profile)
    /\ [][\A c \in Callers : call'[c] # call[c] =>
            /\ StepOp(c) = "put" =>
                 profilers'[wrapper.get_profile].samples
                    = profilers[wrapper.get_profile].samples
            /\ StepOp(c) = "get" =>
                 profilers'[wrapper.put_profile].samples
                    = profilers[wrapper.put_profile].samples]_vars

\* Both kinds of call have recorded.
C3_Witness ==
    /\ Constructed
    /\ Len(SamplerOf("get").samples) >= 1
    /\ Len(SamplerOf("put").samples) >= 1

\* C4 (one Sample per completed call): each Sampler holds exactly as many
\* Samples as InstrumentedStore calls of its kind have completed, whatever
\* the backend answered, and every Sample has values = <<1>>.
C4_OneSamplePerCall ==
    Constructed =>
        \A op \in Ops :
            /\ Len(SamplerOf(op).samples) = completed[op]
            /\ \A i \in 1..Len(SamplerOf(op).samples) :
                  SamplerOf(op).samples[i].values = <<1>>

\* Every get so far was answered NotFound, yet each one was sampled.
C4_Witness ==
    /\ Constructed
    /\ AllIdle
    /\ failed["get"] >= 1
    /\ completed["get"] = failed["get"]
    /\ Len(SamplerOf("get").samples) = failed["get"]

\* C5 (failure isolation), as claimed: with a profiler whose engine failed to
\* initialise the storage path still runs (no panic before the report is
\* built) and building the report of that profiler fails.
C5_FailureIsolation ==
    \A kind \in Ops :
        engine[kind] = "err" =>
            /\ ~(pc.stage = "panicked" /\ pc.kind \in {"new", "workload"})
            /\ reports[kind].built => ~reports[kind].ok

\* C6 (construction reports the failure), as claimed: once construction is
\* over, the wrapper exists and a profiler whose engine failed holds the
\* error.
C6_InitErrorIsAValue ==
    \A kind \in Ops :
        (engine[kind] = "err" /\ pc.stage # "new") =>
            /\ Constructed
            /\ SamplerOf(kind).state = "Err"

Mismatch(samples, types) ==
    \E i \in 1..Len(samples) : Len(samples[i].values) # Len(types)

\* C7 (cardinality consistency): building a report fails when the Sampler
\* holds a Sample whose values length differs from the number of declared
\* sample types; a report that was built has one declared sample type and
\* only Samples with one value.
C7_Cardinality ==
    \A kind \in Ops :
        reports[kind].built =>
            /\ Mismatch(SamplerOf(kind).samples, reports[kind].types)
                  => ~reports[kind].ok
            /\ reports[kind].ok =>
                  /\ Len(reports[kind].types) = 1
                  /\ \A i \in 1..Len(reports[kind].samples) :
                        Len(reports[kind].samples[i].values)
                            = Len(reports[kind].types)

\* The get report was built from two one-valued Samples and the put report
\* was refused because of a Sample of another length.
C7_Witness ==
    /\ reports["get"].ok
    /\ Len(reports["get"].samples) = 2
    /\ reports["put"].built
    /\ ~reports["put"].ok
    /\ Mismatch(SamplerOf("put").samples, reports["put"].types)

Occurrences(samples, id) ==
    Cardinality({i \in 1..Len(samples) : samples[i].stack = id})

\* C8 (handoff): every store wrap returned holds the wrapper's own two
\* Sampler instances, and a report main builds contains each Sample those
\* stores recorded exactly once, and nothing else.
C8_Handoff ==
    /\ \A s \in 1..Len(stores) :
          IsWrapped(s) =>
              /\ stores[s].get_profiler = wrapper.get_profile
              /\ stores[s].put_profiler = wrapper.put_profile
    /\ \A kind \in Ops :
          reports[kind].ok =>
              /\ \A id \in recorded[kind] :
                    Occurrences(reports[kind].samples, id) = 1
              /\ Len(reports[kind].samples) = Cardinality(recorded[kind])

\* Both reports were built after a store wrapping a wrapped store recorded.
C8_Witness ==
    /\ reports["get"].ok
    /\ reports["put"].ok
    /\ recorded["put"] # {}
    /\ \E s \in 1..Len(stores) :
          /\ IsWrapped(s)
          /\ IsWrapped(stores[s].inner)
          /\ \E id \in recorded["get"] : id[1] = s

\* C9 (lock discipline): a caller whose backend call is in progress holds no
\* Sampler lock.
C9_NoLockAcrossBackend ==
    \A c \in Callers :
        call[c].phase = "in_backend" => \A a \in ArcIds : lock[a] # c

\* One caller is inside the backend while another holds the lock of the
\* Sampler the first will record into.
C9_Witness ==
    \E c1, c2 \in Callers :
        /\ call[c1].phase = "in_backend"
        /\ call[c2].phase = "locked"
        /\ call[c1].op = call[c2].op
        /\ lock[ProfilerOf(stores[Head(call[c1].layers)], call[c1].op)] = c2

\* C10 (failure-safe export), as claimed: when main has ended, by returning
\* or by a panic, every destination file is closed and a file that exists
\* holds the complete encoding of its report.
C10_ExportFailureSafe ==
    pc.stage \in {"panicked", "done"} =>
        \A kind \in Ops :
            /\ ~files[FileOf(kind)].open
            /\ files[FileOf(kind)].exists =>
                  files[FileOf(kind)].content = write_to_vec(reports[kind])

====
